---------------------------- MODULE Spec2Model ----------------------------
(***************************************************************************)
(* Model of the CloudTrail KMS monitor: the time-range resolver            *)
(* (internal/timeutil), the event filter and the paginated scan            *)
(* (internal/monitor, both the filter variant and the key-only variant),   *)
(* and the log sink (internal/writer).                                     *)
(*                                                                         *)
(* Strings are sequences of one-character strings, so that Contains,       *)
(* ToLower and the lastN pattern are computed and not assumed.  Instants   *)
(* are whole seconds counted from 00:00:00 of day 0.                       *)
(***************************************************************************)
EXTENDS Integers, Sequences, FiniteSets, TLC

VARIABLES
    \* ---- time-range resolver (SpecTime)
    tpc,        \* "input" before ValidateAndParseTimeRange ran, "resolved" after
    lastN,      \* the --last-n string
    startStr,   \* the --start string
    endStr,     \* the --end string
    now,        \* what time.Now() returns inside RelativeTimeRange
    window,     \* the (start, end, err) triple returned
    \* ---- filter predicate (SpecFilter)
    fpc,        \* "input" before matchesFilter ran, "matched" after
    event,      \* the types.Event handed to matchesFilter
    filters,    \* the FilterOptions handed to matchesFilter
    result,     \* what matchesFilter returned
    \* ---- the scan, MonitorKMSEvents (Spec)
    variant,    \* "filter": monitor.go 151-282; "keyonly": monitor.go 518-579
    criteria,   \* the FilterOptions of the run (the key-only variant reads KeyID)
    pages,      \* the pages the query service holds for the window
    pc,         \* "scan" at the head of the page loop, "page" inside a page,
                \* "done" returned nil, "error" returned an error, "panic"
    firstPage,  \* paginator: no page requested yet
    nextToken,  \* paginator: 0 for nil, else the number of the next page
    output,     \* the events of the page being processed
    idx,        \* position in output of the next event
    requests,   \* the page requests made, in order
    fault,      \* the error the query service answered a request with
    scanErr,    \* the error MonitorKMSEvents returned
    evaluated,  \* the events handed to the filter, in order
    eventCount, \* eventCount
    console,    \* the events rendered to the console, in order
    file,       \* the sink file: the pieces written, in order
    writeErrors,\* the events whose WriteEvent returned an error
    summary,    \* the count reported at the end, NoSummary before
    \* ---- concurrent callers of LogWriter.WriteEvent (SpecSink)
    exportMode, \* LogWriter.exportMode
    mu,         \* LogWriter.mu: the worker holding it, or NoHolder
    wpc,        \* each worker's position inside WriteEvent
    wn,         \* each worker's pieces written by the current WriteString
    calls,      \* each worker's number of WriteEvent calls made
    rets,       \* the calls that returned, each with what it returned
    handles,    \* the workers whose call holds an open file handle
    \* ---- the command, PreRunE and runKMS (SpecRun)
    rpc,        \* "prerun", "resolve", "client", "monitor", "running",
                \* "returned"
    client,     \* "none" before NewAWSClient, "ok" or "failed" after
    runErr,     \* the error the command returned, NoFault for nil
    \* ---- one LogWriter and the file system under it (SpecWriter)
    lwpc,       \* "new" before NewLogWriter, "ready" after, "panic"
    customFile, \* LogWriter.customFile, NoPath for ""
    today,      \* the calendar date time.Now() is in
    dirs,       \* the directories that exist
    files,      \* the regular files that exist, each with its records
    wlog,       \* the WriteEvent calls made: date, event, what it returned
    \* ---- the context handed to MonitorKMSEvents (SpecCancel)
    cancelled   \* ctx is cancelled

timeVars   == <<tpc, lastN, startStr, endStr, now, window>>
filterVars == <<fpc, event, filters, result>>
scanVars   == <<variant, criteria, pages, pc, firstPage, nextToken, output,
                idx, requests, fault, scanErr, evaluated, eventCount, console,
                file, writeErrors, summary>>
sinkVars   == <<exportMode, mu, wpc, wn, calls, rets, handles>>
runVars    == <<rpc, client, runErr>>
writerVars == <<lwpc, customFile, today, dirs, files, wlog>>
ctxVars    == <<cancelled>>
vars       == <<timeVars, filterVars, scanVars, sinkVars, runVars, writerVars,
                ctxVars>>

-----------------------------------------------------------------------------
(* Strings *)

\* strings.Contains(s, sub)
Contains(s, sub) ==
    \E i \in 1..(Len(s) + 1) :
        /\ i + Len(sub) - 1 <= Len(s)
        /\ SubSeq(s, i, i + Len(sub) - 1) = sub

LowerChar(c) ==
    CASE c = "A" -> "a"
      [] c = "B" -> "b"
      [] c = "D" -> "d"
      [] c = "G" -> "g"
      [] c = "K" -> "k"
      [] OTHER   -> c

\* strings.ToLower(s)
ToLower(s) == [i \in 1..Len(s) |-> LowerChar(s[i])]

-----------------------------------------------------------------------------
(* internal/timeutil: the time-range resolver *)

Minute == 60
Hour   == 3600
Day    == 86400

\* time.Time{}, the zero instant returned next to every error
ZeroTime == 0 - 1

\* what strconv.Atoi returns (with an error the caller drops) for a digit
\* string too large for an int; any value above every accepted range
AtoiMax == 2147483647

Digits == {"0", "1", "2", "3", "4", "5", "6", "7", "8", "9"}

DigitVal(c) ==
    CASE c = "0" -> 0 [] c = "1" -> 1 [] c = "2" -> 2 [] c = "3" -> 3
      [] c = "4" -> 4 [] c = "5" -> 5 [] c = "6" -> 6 [] c = "7" -> 7
      [] c = "8" -> 8 [] c = "9" -> 9

RECURSIVE Atoi(_)
\* strconv.Atoi on a string of digits; out of range gives the largest int
Atoi(ds) ==
    IF ds = <<>> THEN 0
    ELSE LET hi == Atoi(SubSeq(ds, 1, Len(ds) - 1))
             d  == DigitVal(ds[Len(ds)])
         IN  IF hi > (AtoiMax - d) \div 10 THEN AtoiMax ELSE hi * 10 + d

\* regexp ^(\d+)(m|h)$
MatchesLastN(s) ==
    /\ Len(s) >= 2
    /\ s[Len(s)] \in {"m", "h"}
    /\ \A i \in 1..(Len(s) - 1) : s[i] \in Digits

Failure(e) == [start |-> ZeroTime, end |-> ZeroTime, err |-> e]
Success(s, e) == [start |-> s, end |-> e, err |-> "none"]

\* RelativeTimeRange with the lower range checks written "value < 0"
RelativeTimeRangeZeroAllowed(timeRange, nowT) ==
    IF ~MatchesLastN(timeRange) THEN Failure("invalid time range format")
    ELSE LET value == Atoi(SubSeq(timeRange, 1, Len(timeRange) - 1))
             unit  == timeRange[Len(timeRange)]
         IN  IF unit = "m"
             THEN IF value < 0 \/ value > 1440
                  THEN Failure("minutes must be between 1 and 1440")
                  ELSE Success(nowT - value * Minute, nowT)
             ELSE IF value < 0 \/ value > 24
                  THEN Failure("hours must be between 1 and 24")
                  ELSE Success(nowT - value * Hour, nowT)

RelativeTimeRange(timeRange, nowT) ==
    IF ~MatchesLastN(timeRange) THEN Failure("invalid time range format")
    ELSE LET value == Atoi(SubSeq(timeRange, 1, Len(timeRange) - 1))
             unit  == timeRange[Len(timeRange)]
         IN  IF unit = "m"
             THEN IF value <= 0 \/ value > 1440
                  THEN Failure("minutes must be between 1 and 1440")
                  ELSE Success(nowT - value * Minute, nowT)
             ELSE IF value <= 0 \/ value > 24
                  THEN Failure("hours must be between 1 and 24")
                  ELSE Success(nowT - value * Hour, nowT)

(* A --start/--end string is kept by what time.Parse reads in it: the layout  *)
(* it is written in ("full" 2006-01-02 15:04:05, "minute" 2006-01-02 15:04,   *)
(* "date" 2006-01-02, "bad" none of them, "empty" the empty string), the day  *)
(* and the second of the day it names, and whether it contains a colon.       *)
TimeString(layout, d, s, colon) ==
    [layout |-> layout, day |-> d, sec |-> s, colon |-> colon]

EmptyString == TimeString("empty", 0, 0, FALSE)

Layouts == <<"full", "minute", "date">>

\* time.Parse(layout, s): the instant and whether parsing succeeded
ParseOk(layout, s) == s.layout = layout
ParseTime(s) == s.day * Day + s.sec

\* the loop over layouts: the first layout that parses decides
Parsed(s) == \E i \in 1..Len(Layouts) : ParseOk(Layouts[i], s)

\* EndOfDay moving every end, with or without a time of day
EndOfDayAlways(endTime, end) == endTime + 23 * Hour + 59 * Minute + 59

\* lines 187-190: a string without a colon is a date, moved to 23:59:59
EndOfDay(endTime, end) ==
    IF ~end.colon THEN endTime + 23 * Hour + 59 * Minute + 59 ELSE endTime

\* ValidateRange without the 24-hour check
ValidateRangeNoCap(startTime, endTime) ==
    IF endTime - startTime < 0
    THEN Failure("end time cannot be before start time")
    ELSE Success(startTime, endTime)

\* ValidateRange without the check that the end is not before the start
ValidateRangeNoOrder(startTime, endTime) ==
    IF endTime - startTime > 24 * Hour
    THEN Failure("time range cannot exceed 24 hours")
    ELSE Success(startTime, endTime)

\* lines 192-200: the two range checks
ValidateRange(startTime, endTime) ==
    LET duration == endTime - startTime
    IN  IF duration < 0 THEN Failure("end time cannot be before start time")
        ELSE IF duration > 24 * Hour
             THEN Failure("time range cannot exceed 24 hours")
             ELSE Success(startTime, endTime)

CustomTimeRange(start, end) ==
    IF ~Parsed(start) THEN Failure("invalid start time format")
    ELSE IF ~Parsed(end) THEN Failure("invalid end time format")
    ELSE ValidateRange(ParseTime(start), EndOfDay(ParseTime(end), end))

\* ValidateAndParseTimeRange without the check that --last-n comes alone
ValidateAndParseTimeRangeLastNWins(ln, start, end, nowT) ==
    IF ln # <<>>
    THEN RelativeTimeRange(ln, nowT)
    ELSE IF (start # EmptyString /\ end = EmptyString)
            \/ (start = EmptyString /\ end # EmptyString)
         THEN Failure("both --start and --end must be provided together")
         ELSE IF start = EmptyString /\ end = EmptyString
              THEN Failure("either --last-n or both --start and --end must be provided")
              ELSE CustomTimeRange(start, end)

ValidateAndParseTimeRange(ln, start, end, nowT) ==
    IF ln # <<>>
    THEN IF start # EmptyString \/ end # EmptyString
         THEN Failure("cannot use --last-n with --start/--end flags")
         ELSE RelativeTimeRange(ln, nowT)
    ELSE IF (start # EmptyString /\ end = EmptyString)
            \/ (start = EmptyString /\ end # EmptyString)
         THEN Failure("both --start and --end must be provided together")
         ELSE IF start = EmptyString /\ end = EmptyString
              THEN Failure("either --last-n or both --start and --end must be provided")
              ELSE CustomTimeRange(start, end)

-----------------------------------------------------------------------------
(* internal/monitor: events and the filter predicate *)

\* a *string of the SDK's types.Event: nil, or a pointer to a string
Nil    == [nil |-> TRUE, s |-> <<>>]
Ptr(s) == [nil |-> FALSE, s |-> s]

\* SafeString (monitor.go 65-70, writer.go 106-111)
SafeString(p) == IF p.nil THEN <<"N", "/", "A">> ELSE p.s

KMSSource  == <<"k", "m", "s">>
KMSKeyType == <<"K", "e", "y">>

\* a member of a JSON object: absent, a JSON string, or a value of another type
Absent       == [t |-> "absent", s |-> <<>>]
JString(s)   == [t |-> "string", s |-> s]
JOther       == [t |-> "other", s |-> <<>>]

(* The CloudTrailEvent *string: nil, or a text that is either no JSON object   *)
(* ("garbage") or an object with an errorCode member and a requestParameters  *)
(* member, the latter absent, not an object ("other"), or an object ("map")   *)
(* holding a keyId member.                                                    *)
NilDetail == [nil |-> TRUE, json |-> "garbage", errorCode |-> Absent,
              reqParams |-> "absent", keyId |-> Absent]
Garbage   == [nil |-> FALSE, json |-> "garbage", errorCode |-> Absent,
              reqParams |-> "absent", keyId |-> Absent]
Object(ec, rp, k) == [nil |-> FALSE, json |-> "object", errorCode |-> ec,
                      reqParams |-> rp, keyId |-> k]

\* json.Unmarshal([]byte(*event.CloudTrailEvent), &eventDetails): err == nil
UnmarshalOk(raw) == raw.json = "object"

\* v, ok := m[key].(string)
IsString(member) == member.t = "string"

\* lines 300-309 (and 36-44): a resource of type AWS::KMS::Key whose name
\* contains the key
ResourceMatch(ev, keyID) ==
    \E i \in 1..Len(ev.Resources) :
        LET resource == ev.Resources[i]
        IN  /\ ~resource.ResourceType.nil
            /\ ~resource.ResourceName.nil
            /\ resource.ResourceType.s = KMSKeyType
            /\ Contains(resource.ResourceName.s, keyID)

\* lines 312-321 (and 47-56): requestParameters.keyId is a string containing
\* the key
DetailKeyMatch(ev, keyID) ==
    /\ ~ev.CloudTrailEvent.nil
    /\ UnmarshalOk(ev.CloudTrailEvent)
    /\ ev.CloudTrailEvent.reqParams = "map"
    /\ IsString(ev.CloudTrailEvent.keyId)
    /\ Contains(ev.CloudTrailEvent.keyId.s, keyID)

\* KeyCheck looking at the resources alone
KeyCheckResourcesOnly(ev, f) ==
    IF f.KeyID # <<>>
    THEN ResourceMatch(ev, f.KeyID)
    ELSE TRUE

\* lines 297-326
KeyCheck(ev, f) ==
    IF f.KeyID # <<>>
    THEN LET isKMSMatch == ResourceMatch(ev, f.KeyID)
                           \/ DetailKeyMatch(ev, f.KeyID)
         IN  isKMSMatch
    ELSE TRUE

\* EventNameCheck comparing without strings.ToLower
EventNameCheckCaseSensitive(ev, f) ==
    IF f.EventName # <<>>
    THEN ~(ev.EventName.nil \/ ~Contains(ev.EventName.s, f.EventName))
    ELSE TRUE

\* lines 329-333
EventNameCheck(ev, f) ==
    IF f.EventName # <<>>
    THEN ~(ev.EventName.nil
           \/ ~Contains(ToLower(ev.EventName.s), ToLower(f.EventName)))
    ELSE TRUE

\* lines 336-340
UserNameCheck(ev, f) ==
    IF f.UserName # <<>>
    THEN ~(ev.Username.nil
           \/ ~Contains(ToLower(ev.Username.s), ToLower(f.UserName)))
    ELSE TRUE

\* lines 343-347
OperationCheck(ev, f) ==
    IF f.Operation # <<>>
    THEN ~(ev.EventName.nil \/ ~Contains(ev.EventName.s, f.Operation))
    ELSE TRUE

\* lines 350-363: the checks run only inside "CloudTrailEvent != nil" and
\* "err == nil"; hasError is whether errorCode is a JSON string
StatusCheck(ev, f) ==
    IF f.ErrorsOnly \/ f.SuccessOnly
    THEN IF ~ev.CloudTrailEvent.nil /\ UnmarshalOk(ev.CloudTrailEvent)
         THEN LET hasError  == IsString(ev.CloudTrailEvent.errorCode)
                  errorCode == ev.CloudTrailEvent.errorCode.s
              IN  IF f.ErrorsOnly /\ ~hasError THEN FALSE
                  ELSE IF f.SuccessOnly /\ hasError /\ errorCode # <<>>
                       THEN FALSE
                       ELSE TRUE
         ELSE TRUE
    ELSE TRUE

\* matchesFilter with the operation block chained as the else of the event
\* name block, so that it runs only when no event name is given
matchesFilterOperationElse(ev, f) ==
    IF ~KeyCheck(ev, f) THEN FALSE
    ELSE IF ~EventNameCheck(ev, f) THEN FALSE
    ELSE IF ~UserNameCheck(ev, f) THEN FALSE
    ELSE IF f.EventName = <<>> /\ ~OperationCheck(ev, f) THEN FALSE
    ELSE IF ~StatusCheck(ev, f) THEN FALSE
    ELSE TRUE

\* matchesFilter returning true as soon as a given user name matches
matchesFilterUserReturns(ev, f) ==
    IF ~KeyCheck(ev, f) THEN FALSE
    ELSE IF ~EventNameCheck(ev, f) THEN FALSE
    ELSE IF ~UserNameCheck(ev, f) THEN FALSE
    ELSE IF f.UserName # <<>> THEN TRUE
    ELSE IF ~OperationCheck(ev, f) THEN FALSE
    ELSE IF ~StatusCheck(ev, f) THEN FALSE
    ELSE TRUE

\* matchesFilter: the five blocks in order, each returning false at once
matchesFilter(ev, f) ==
    IF ~KeyCheck(ev, f) THEN FALSE
    ELSE IF ~EventNameCheck(ev, f) THEN FALSE
    ELSE IF ~UserNameCheck(ev, f) THEN FALSE
    ELSE IF ~OperationCheck(ev, f) THEN FALSE
    ELSE IF ~StatusCheck(ev, f) THEN FALSE
    ELSE TRUE

\* isKMSEvent of the key-only variant (lines 400-426)
isKMSEvent(ev, keyID) ==
    IF ~ev.EventSource.nil /\ ev.EventSource.s = KMSSource
    THEN ResourceMatch(ev, keyID) \/ DetailKeyMatch(ev, keyID)
    ELSE FALSE

-----------------------------------------------------------------------------
(* Inputs of the resolver *)

MaxDay == 2

LastNInputs ==
    { <<>>,
      <<"0", "m">>, <<"1", "m">>, <<"5", "m">>, <<"0", "5", "m">>,
      <<"1", "4", "4", "0", "m">>, <<"1", "4", "4", "1", "m">>,
      <<"0", "h">>, <<"1", "h">>, <<"2", "4", "h">>, <<"2", "5", "h">>,
      <<"1", "d">>, <<"m">>, <<"5">>, <<"-", "5", "m">>, <<"5", " ", "m">>,
      <<"9", "9", "9", "9", "9", "9", "9", "9", "9", "9", "9", "m">> }

FullSeconds   == {0, 1, 12 * Hour, 23 * Hour + 59 * Minute + 59}
MinuteSeconds == {0, 23 * Hour + 59 * Minute}

TimeStrings ==
    {EmptyString}
    \cup {TimeString("bad", 0, 0, c) : c \in BOOLEAN}
    \cup {TimeString("full", d, sec, TRUE) : d \in 0..MaxDay, sec \in FullSeconds}
    \cup {TimeString("minute", d, sec, TRUE) : d \in 0..MaxDay, sec \in MinuteSeconds}
    \cup {TimeString("date", d, 0, FALSE) : d \in 0..MaxDay}

Nows == {10 * Day, 10 * Day + 12 * Hour + 1}

Pending == [start |-> ZeroTime, end |-> ZeroTime, err |-> "pending"]

TimeIdle ==
    /\ tpc = "off" /\ lastN = <<>> /\ startStr = EmptyString
    /\ endStr = EmptyString /\ now = ZeroTime /\ window = Pending

TimeInit ==
    /\ tpc = "input"
    /\ lastN \in LastNInputs
    /\ startStr \in TimeStrings
    /\ endStr \in TimeStrings
    /\ now = ZeroTime
    /\ window = Pending

\* runKMS line 123: the resolver is applied to the three flags
Resolve ==
    /\ tpc = "input"
    /\ \E n \in Nows :
        /\ now' = n
        /\ window' = ValidateAndParseTimeRange(lastN, startStr, endStr, n)
    /\ tpc' = "resolved"
    /\ UNCHANGED <<lastN, startStr, endStr>>
    /\ UNCHANGED <<filterVars, scanVars, sinkVars, runVars, writerVars, ctxVars>>

-----------------------------------------------------------------------------
(* Inputs of the filter predicate *)

KeyType   == Ptr(KMSKeyType)
OtherType == Ptr(<<"S", "3">>)

ResourceLists ==
    { <<>>,
      <<[ResourceType |-> KeyType, ResourceName |-> Ptr(<<"a", "k", "1">>)]>>,
      <<[ResourceType |-> Nil, ResourceName |-> Nil],
        [ResourceType |-> OtherType, ResourceName |-> Ptr(<<"k", "1">>)]>>,
      <<[ResourceType |-> KeyType, ResourceName |-> Nil],
        [ResourceType |-> KeyType, ResourceName |-> Ptr(<<"z">>)]>>,
      <<[ResourceType |-> OtherType, ResourceName |-> Ptr(<<"k", "1">>)],
        [ResourceType |-> KeyType, ResourceName |-> Ptr(<<"k", "1">>)]>> }

Details ==
    {NilDetail, Garbage}
    \cup { Object(ec, "map", k) :
             ec \in {Absent, JOther, JString(<<>>), JString(<<"A", "D">>)},
             k \in {Absent, JOther, JString(<<"k", "1">>),
                    JString(<<"z">>)} }
    \cup { Object(ec, "other", Absent) :
             ec \in {Absent, JOther, JString(<<>>), JString(<<"A", "D">>)} }

Events ==
    [ EventName       : {Nil, Ptr(<<"D", "e">>), Ptr(<<"G">>)},
      Username        : {Nil, Ptr(<<"a", "b">>)},
      EventSource     : {Ptr(KMSSource), Ptr(<<"s", "3">>)},
      EventTime       : {TRUE},
      Resources       : ResourceLists,
      CloudTrailEvent : Details ]

\* the values each criterion is given, the unset value among them
CriterionValues ==
    [ KeyID       |-> {<<>>, <<"k", "1">>},
      EventName   |-> {<<>>, <<"d">>, <<"G">>},
      UserName    |-> {<<>>, <<"A">>},
      Operation   |-> {<<>>, <<"D">>, <<"d">>},
      ErrorsOnly  |-> BOOLEAN,
      SuccessOnly |-> BOOLEAN ]

FilterSet ==
    [ KeyID       : CriterionValues.KeyID,
      EventName   : CriterionValues.EventName,
      UserName    : CriterionValues.UserName,
      Operation   : CriterionValues.Operation,
      ErrorsOnly  : CriterionValues.ErrorsOnly,
      SuccessOnly : CriterionValues.SuccessOnly ]

NoFilters == [KeyID |-> <<>>, EventName |-> <<>>, UserName |-> <<>>,
              Operation |-> <<>>, ErrorsOnly |-> FALSE, SuccessOnly |-> FALSE]

NoEvent == [EventName |-> Nil, Username |-> Nil, EventSource |-> Nil,
            EventTime |-> FALSE, Resources |-> <<>>,
            CloudTrailEvent |-> NilDetail]

FilterIdle ==
    /\ fpc = "off" /\ event = NoEvent /\ filters = NoFilters /\ result = FALSE

FilterInit ==
    /\ fpc = "input"
    /\ event \in Events
    /\ filters \in FilterSet
    /\ result = FALSE

\* MonitorKMSEvents line 200: the predicate is applied to one event
Match ==
    /\ fpc = "input"
    /\ result' = matchesFilter(event, filters)
    /\ fpc' = "matched"
    /\ UNCHANGED <<event, filters>>
    /\ UNCHANGED <<timeVars, scanVars, sinkVars, runVars, writerVars, ctxVars>>

-----------------------------------------------------------------------------
(* internal/writer: the sink *)

\* the most write calls one WriteString needs for one record (os.File.Write
\* repeats the write until every byte is written or one call fails)
RecLen == 2

\* the pieces 1..k of the record of event id
Pieces(id, k) == [j \in 1..k |-> [id |-> id, piece |-> j]]

(* What the file system does to one WriteEvent: whether os.OpenFile succeeds *)
(* and how many pieces of the record f.WriteString writes before it returns,  *)
(* RecLen of them when it succeeds.                                           *)
WriteOutcomes ==
    {[open |-> FALSE, pieces |-> 0]}
    \cup {[open |-> TRUE, pieces |-> k] : k \in 0..RecLen}

Failing(o) == ~o.open \/ o.pieces < RecLen

\* WriteEvent (writer.go 113-160) on the file f: the file afterwards and how
\* the call ends, "nil", "err", or "panic" when event.EventTime is nil
\* (lines 139 and 55 call Format through the nil pointer)
WriteEvent(f, ev, id, o) ==
    IF ~o.open
    THEN [file |-> f, ret |-> "err"]
    ELSE IF ~ev.EventTime
         THEN [file |-> f, ret |-> "panic"]
         ELSE [file |-> f \o Pieces(id, o.pieces),
               ret  |-> IF o.pieces = RecLen THEN "nil" ELSE "err"]

-----------------------------------------------------------------------------
(* internal/monitor: the scan *)

\* a Go error value: nil, or a message wrapping a cause
NoError == [msg |-> "nil", cause |-> "nil"]
Error(msg, cause) == [msg |-> msg, cause |-> cause]

NoFault   == "none"
NoSummary == 0 - 1

Causes == {"throttled", "denied"}

\* paginator.HasMorePages()
HasMorePages == firstPage \/ nextToken # 0

\* the page a request with the current token asks for
Requested == IF nextToken = 0 THEN 1 ELSE nextToken

\* the NextToken of the service's answer for page n
TokenAfter(n) == IF n < Len(pages) THEN n + 1 ELSE 0

\* the predicate the variant applies to an event (lines 200 and 549)
Selected(ev) ==
    IF variant = "filter"
    THEN matchesFilter(ev, criteria)
    ELSE isKMSEvent(ev, criteria.KeyID)

\* the errors a request made with the context can be answered with: a
\* cancelled context ends the request with its own error
RequestErrors == IF cancelled THEN {"canceled"} ELSE Causes

\* lines 193-197, 541-546: the request succeeds
NextPageOk ==
    /\ pc = "scan"
    /\ HasMorePages
    /\ ~cancelled
    /\ requests' = Append(requests, Requested)
    /\ output' = pages[Requested]
    /\ idx' = 1
    /\ firstPage' = FALSE
    /\ nextToken' = TokenAfter(Requested)
    /\ pc' = "page"
    /\ UNCHANGED <<variant, criteria, pages, fault, scanErr, evaluated,
                   eventCount, console, file, writeErrors, summary>>
    /\ UNCHANGED <<timeVars, filterVars, sinkVars, runVars, writerVars, ctxVars>>

\* a failed request answered by asking again: the loop goes on
NextPageFailRetried ==
    /\ pc = "scan"
    /\ HasMorePages
    /\ \E c \in Causes : fault' = c
    /\ requests' = Append(requests, Requested)
    /\ UNCHANGED <<variant, criteria, pages, pc, scanErr, firstPage, nextToken,
                   output, idx, evaluated, eventCount, console, file,
                   writeErrors, summary>>
    /\ UNCHANGED <<timeVars, filterVars, sinkVars, runVars, writerVars, ctxVars>>

\* lines 193-197, 541-546: the request fails, the scan returns the error
NextPageFail ==
    /\ pc = "scan"
    /\ HasMorePages
    /\ \E c \in RequestErrors :
        /\ fault' = c
        /\ scanErr' = Error("error looking up events", c)
    /\ requests' = Append(requests, Requested)
    /\ pc' = "error"
    /\ UNCHANGED <<variant, criteria, pages, firstPage, nextToken, output, idx,
                   evaluated, eventCount, console, file, writeErrors, summary>>
    /\ UNCHANGED <<timeVars, filterVars, sinkVars, runVars, writerVars, ctxVars>>

\* the body of the event loop of the filter variant, lines 199-273
FilterBody(ev, id, o) ==
    /\ evaluated' = Append(evaluated, id)
    /\ IF ~matchesFilter(ev, criteria)
       THEN /\ idx' = idx + 1
            /\ UNCHANGED <<pc, eventCount, console, file, writeErrors>>
       ELSE LET w == WriteEvent(file, ev, id, o)
            IN  /\ eventCount' = eventCount + 1
                /\ file' = w.file
                /\ writeErrors' = IF w.ret = "err" THEN writeErrors \cup {id}
                                  ELSE writeErrors
                   \* line 219 calls event.EventTime.Format
                /\ IF w.ret = "panic" \/ ~ev.EventTime
                   THEN /\ pc' = "panic"
                        /\ UNCHANGED <<idx, console>>
                   ELSE /\ console' = Append(console, id)
                        /\ idx' = idx + 1
                        /\ UNCHANGED pc

\* the body of the event loop of the key-only variant, lines 548-562, with
\* processEvent, lines 453-516
KeyOnlyBody(ev, id, o) ==
    /\ evaluated' = Append(evaluated, id)
    /\ idx' = idx + 1
    /\ UNCHANGED pc
    /\ IF ~isKMSEvent(ev, criteria.KeyID)
       THEN UNCHANGED <<eventCount, console, file, writeErrors>>
       ELSE /\ eventCount' = eventCount + 1
            /\ IF ev.EventName.nil \/ ~ev.EventTime
               THEN UNCHANGED <<console, file, writeErrors>>
               ELSE LET w == WriteEvent(file, ev, id, o)
                    IN  /\ file' = w.file
                        /\ writeErrors' =
                               IF w.ret = "err" THEN writeErrors \cup {id}
                               ELSE writeErrors
                        /\ console' = Append(console, id)

MaxWriteFailures == 2

\* one iteration of the event loop
ProcessEvent ==
    /\ pc = "page"
    /\ idx <= Len(output)
    /\ \E o \in WriteOutcomes :
        /\ Failing(o) => Cardinality(writeErrors) < MaxWriteFailures
        /\ IF variant = "filter"
           THEN FilterBody(output[idx], <<Len(requests), idx>>, o)
           ELSE KeyOnlyBody(output[idx], <<Len(requests), idx>>, o)
    /\ UNCHANGED <<variant, criteria, pages, firstPage, nextToken, output,
                   requests, fault, scanErr, summary>>
    /\ UNCHANGED <<timeVars, filterVars, sinkVars, runVars, writerVars, ctxVars>>

\* the event loop ends, back to the head of the page loop
EndPage ==
    /\ pc = "page"
    /\ idx > Len(output)
    /\ pc' = "scan"
    /\ UNCHANGED <<variant, criteria, pages, firstPage, nextToken, output, idx,
                   requests, fault, scanErr, evaluated, eventCount, console,
                   file, writeErrors, summary>>
    /\ UNCHANGED <<timeVars, filterVars, sinkVars, runVars, writerVars, ctxVars>>

\* lines 276-281, 573-578: no more pages, the count is reported, nil returned
Finish ==
    /\ pc = "scan"
    /\ ~HasMorePages
    /\ summary' = eventCount
    /\ pc' = "done"
    /\ UNCHANGED <<variant, criteria, pages, firstPage, nextToken, output, idx,
                   requests, fault, scanErr, evaluated, eventCount, console,
                   file, writeErrors>>
    /\ UNCHANGED <<timeVars, filterVars, sinkVars, runVars, writerVars, ctxVars>>

\* the caller cancels the context while MonitorKMSEvents runs
Cancel ==
    /\ pc \in {"scan", "page"}
    /\ ~cancelled
    /\ cancelled' = TRUE
    /\ UNCHANGED <<timeVars, filterVars, scanVars, sinkVars, runVars,
                   writerVars>>

-----------------------------------------------------------------------------
(* Inputs of the scan *)

MaxPages == 2

GoodEvent ==
    [ EventName       |-> Ptr(<<"D", "e">>),
      Username        |-> Ptr(<<"a", "b">>),
      EventSource     |-> Ptr(KMSSource),
      EventTime       |-> TRUE,
      Resources       |-> <<[ResourceType |-> KeyType,
                             ResourceName |-> Ptr(<<"a", "k", "1">>)]>>,
      CloudTrailEvent |-> Object(JString(<<"A", "D">>), "map",
                                 JString(<<"k", "1">>)) ]

OtherEvent ==
    [ EventName       |-> Ptr(<<"G">>),
      Username        |-> Nil,
      EventSource     |-> Ptr(KMSSource),
      EventTime       |-> TRUE,
      Resources       |-> <<>>,
      CloudTrailEvent |-> Object(Absent, "map", Absent) ]

NoTimeEvent   == [GoodEvent EXCEPT !.EventTime = FALSE]
NoNameEvent   == [GoodEvent EXCEPT !.EventName = Nil]
ForeignEvent  == [GoodEvent EXCEPT !.EventSource = Ptr(<<"s", "3">>)]
GarbledEvent  == [GoodEvent EXCEPT !.CloudTrailEvent = Garbage]

PageSet ==
    { <<>>,
      <<GoodEvent>>,
      <<OtherEvent>>,
      <<GoodEvent, OtherEvent, GoodEvent>>,
      <<NoTimeEvent, GoodEvent>>,
      <<NoNameEvent, ForeignEvent>>,
      <<GarbledEvent>> }

PageLists == UNION { [1..n -> PageSet] : n \in 1..MaxPages }

ByNameErrors == [NoFilters EXCEPT !.EventName = <<"d">>, !.ErrorsOnly = TRUE]
ByKey        == [NoFilters EXCEPT !.KeyID = <<"k", "1">>]

ScanIdle ==
    /\ variant = "off" /\ criteria = NoFilters /\ pages = <<>> /\ pc = "off"
    /\ firstPage = FALSE /\ nextToken = 0 /\ output = <<>> /\ idx = 0
    /\ requests = <<>> /\ fault = NoFault /\ scanErr = NoError
    /\ evaluated = <<>> /\ eventCount = 0 /\ console = <<>> /\ file = <<>>
    /\ writeErrors = {} /\ summary = NoSummary

\* context.Background(), or a context not cancelled yet
CtxIdle == cancelled = FALSE

\* lines 185-191, 532-539: the paginator is new, nothing counted
ScanInit ==
    /\ variant \in {"filter", "keyonly"}
    /\ criteria \in IF variant = "filter" THEN {ByNameErrors, ByKey} ELSE {ByKey}
    /\ pages \in PageLists
    /\ pc = "scan"
    /\ firstPage = TRUE
    /\ nextToken = 0
    /\ output = <<>>
    /\ idx = 0
    /\ requests = <<>>
    /\ fault = NoFault
    /\ scanErr = NoError
    /\ evaluated = <<>>
    /\ eventCount = 0
    /\ console = <<>>
    /\ file = <<>>
    /\ writeErrors = {}
    /\ summary = NoSummary

-----------------------------------------------------------------------------
(* internal/writer: WriteEvent called by several workers on one LogWriter *)

Workers  == {"w1", "w2"}
NoHolder == "none"

MaxCalls        == 2
MaxSinkFailures == 2

\* the scan's variables other than the file
scanRest == <<variant, criteria, pages, pc, firstPage, nextToken, output, idx,
              requests, fault, scanErr, evaluated, eventCount, console,
              writeErrors, summary>>

\* the call a worker is making
CallId(w) == <<w, calls[w]>>

\* between w.mu.Lock() returning and the deferred w.mu.Unlock()
InFlight(w) == wpc[w] \in {"open", "format", "write"}

FailureLeft ==
    Cardinality({r \in rets : r.ret = "err"}) < MaxSinkFailures

\* a return that skips the deferred calls when the call fails
ReturnKeepsLockOnError(w, ret) ==
    /\ mu' = IF ret = "err" THEN mu ELSE NoHolder
    /\ handles' = IF ret = "err" THEN handles ELSE handles \ {w}
    /\ wpc' = [wpc EXCEPT ![w] = "idle"]
    /\ wn' = [wn EXCEPT ![w] = 0]
    /\ rets' = rets \cup {[id |-> CallId(w), ret |-> ret]}

\* every return path: the deferred f.Close() and w.mu.Unlock() run
Return(w, ret) ==
    /\ mu' = NoHolder
    /\ handles' = handles \ {w}
    /\ wpc' = [wpc EXCEPT ![w] = "idle"]
    /\ wn' = [wn EXCEPT ![w] = 0]
    /\ rets' = rets \cup {[id |-> CallId(w), ret |-> ret]}

\* a worker calls WriteEvent and reaches w.mu.Lock() (line 114)
Call(w) ==
    /\ wpc[w] = "idle"
    /\ calls[w] < MaxCalls
    /\ calls' = [calls EXCEPT ![w] = calls[w] + 1]
    /\ wpc' = [wpc EXCEPT ![w] = "lock"]
    /\ UNCHANGED <<exportMode, mu, wn, rets, handles, file>>
    /\ UNCHANGED <<timeVars, filterVars, scanRest, runVars, writerVars, ctxVars>>

\* w.mu.Lock() returns once the mutex is free (line 114)
Lock(w) ==
    /\ wpc[w] = "lock"
    /\ mu = NoHolder
    /\ mu' = w
    /\ wpc' = [wpc EXCEPT ![w] = "open"]
    /\ UNCHANGED <<exportMode, wn, calls, rets, handles, file>>
    /\ UNCHANGED <<timeVars, filterVars, scanRest, runVars, writerVars, ctxVars>>

\* os.OpenFile succeeds (line 129)
OpenOk(w) ==
    /\ wpc[w] = "open"
    /\ wpc' = [wpc EXCEPT ![w] = "format"]
    /\ handles' = handles \cup {w}
    /\ UNCHANGED <<exportMode, mu, wn, calls, rets, file>>
    /\ UNCHANGED <<timeVars, filterVars, scanRest, runVars, writerVars, ctxVars>>

\* os.OpenFile fails (lines 130-132)
OpenFail(w) ==
    /\ wpc[w] = "open"
    /\ FailureLeft
    /\ Return(w, "err")
    /\ UNCHANGED <<exportMode, calls, file>>
    /\ UNCHANGED <<timeVars, filterVars, scanRest, runVars, writerVars, ctxVars>>

\* the record is rendered (lines 135-153)
Format(w) ==
    /\ wpc[w] = "format"
    /\ wpc' = [wpc EXCEPT ![w] = "write"]
    /\ UNCHANGED <<exportMode, mu, wn, calls, rets, handles, file>>
    /\ UNCHANGED <<timeVars, filterVars, scanRest, runVars, writerVars, ctxVars>>

\* json.MarshalIndent fails (lines 146-149)
MarshalFail(w) ==
    /\ wpc[w] = "format"
    /\ exportMode = "json"
    /\ FailureLeft
    /\ Return(w, "err")
    /\ UNCHANGED <<exportMode, calls, file>>
    /\ UNCHANGED <<timeVars, filterVars, scanRest, runVars, writerVars, ctxVars>>

\* f.WriteString appends the next piece of the record (line 155)
WritePiece(w) ==
    /\ wpc[w] = "write"
    /\ wn[w] < RecLen
    /\ file' = Append(file, [id |-> CallId(w), piece |-> wn[w] + 1])
    /\ wn' = [wn EXCEPT ![w] = wn[w] + 1]
    /\ UNCHANGED <<exportMode, mu, wpc, calls, rets, handles>>
    /\ UNCHANGED <<timeVars, filterVars, scanRest, runVars, writerVars, ctxVars>>

\* f.WriteString returns an error before the record is complete (155-157)
WriteFail(w) ==
    /\ wpc[w] = "write"
    /\ wn[w] < RecLen
    /\ FailureLeft
    /\ Return(w, "err")
    /\ UNCHANGED <<exportMode, calls, file>>
    /\ UNCHANGED <<timeVars, filterVars, scanRest, runVars, writerVars, ctxVars>>

\* the record is written, WriteEvent returns nil (line 159)
WriteDone(w) ==
    /\ wpc[w] = "write"
    /\ wn[w] = RecLen
    /\ Return(w, "nil")
    /\ UNCHANGED <<exportMode, calls, file>>
    /\ UNCHANGED <<timeVars, filterVars, scanRest, runVars, writerVars, ctxVars>>

SinkIdle ==
    /\ exportMode = "off" /\ mu = NoHolder /\ wpc = <<>> /\ wn = <<>>
    /\ calls = <<>> /\ rets = {} /\ handles = {}

\* NewLogWriter (lines 29-48): the mutex is free, no call made
SinkInit ==
    /\ exportMode \in {"text", "json"}
    /\ mu = NoHolder
    /\ wpc = [w \in Workers |-> "idle"]
    /\ wn = [w \in Workers |-> 0]
    /\ calls = [w \in Workers |-> 0]
    /\ rets = {}
    /\ handles = {}

-----------------------------------------------------------------------------
(* The file system under the sink *)

NoDate == 0 - 1

\* a file path: the directory it is in and its base name; a base name is a
\* tag and, for a daily file, the date in it
Path(dir, tag, date) == [dir |-> dir, base |-> [tag |-> tag, date |-> date]]

\* the empty string as a path
NoPath == Path(<<>>, "", NoDate)

\* the --output directory and the service tag NewKMSMonitor passes
OutputDir  == <<"logs">>
ServiceTag == "kms"

\* filepath.Join(dir, name)
Join(dir, name) == Append(dir, name)

\* filepath.Dir(path)
Dir(path) == path.dir

\* the directory exists; the empty directory path is ".", which always does
DirExists(d, ds) == d = <<>> \/ d \in ds

\* os.MkdirAll(d, 0755) succeeding: d and every parent of d exist afterwards
MkdirAll(d, ds) == ds \cup {SubSeq(d, 1, k) : k \in 1..Len(d)}

\* --export-file values: none, a file in a directory of its own, a file in
\* the working directory
ExportPath == Path(<<"exp">>, "events.json", NoDate)
ExportHere == Path(<<>>, "events.log", NoDate)

\* no regular file exists
NoFiles == <<>>

\* NewLogWriter, lines 40-45: the directory it creates
SinkDir(cf) == IF cf # NoPath THEN Dir(cf) ELSE Join(OutputDir, ServiceTag)

\* NewLogWriter, lines 40-45: the result of os.MkdirAll is dropped, so the
\* directories exist afterwards only when it succeeded (made)
NewLogWriterDirs(cf, ds, made) == IF made THEN MkdirAll(SinkDir(cf), ds) ELSE ds

-----------------------------------------------------------------------------
(* internal/writer: one LogWriter over the days of a run *)

MaxWrites == 2
MaxDate   == 1

\* the daily file of a date: <outputDir>/<tag>/<tag>-events-<date>.log
DailyFile(date) == Path(Join(OutputDir, ServiceTag), ServiceTag, date)

\* FileName with the date taken once, not at each write
FileNameFirstDay(cf, date) == IF cf # NoPath THEN cf ELSE DailyFile(0)

\* WriteEvent lines 117-126 and GetCurrentFile lines 162-171: the file a write
\* made on the given date goes to
FileName(cf, date) == IF cf # NoPath THEN cf ELSE DailyFile(date)

\* a JSON value that is null or a string
JNull == [t |-> "null", s |-> <<>>]

\* how encoding/json writes a *string field
MarshalPtr(p) == IF p.nil THEN JNull ELSE JString(p.s)

\* how encoding/json writes event.Resources: null for a nil slice, else an
\* array of objects with the members ResourceName and ResourceType
MarshalResources(rs) ==
    IF rs = <<>>
    THEN [t |-> "null", items |-> <<>>]
    ELSE [t |-> "array",
          items |-> [i \in 1..Len(rs) |->
                       [ResourceName |-> MarshalPtr(rs[i].ResourceName),
                        ResourceType |-> MarshalPtr(rs[i].ResourceType)]]]

\* WriteEvent lines 138-145: the object written in JSON mode
JsonData(ev) ==
    [ timestamp   |-> "2006-01-02 15:04:05",
      eventName   |-> JString(SafeString(ev.EventName)),
      eventSource |-> JString(SafeString(ev.EventSource)),
      user        |-> JString(SafeString(ev.Username)),
      resources   |-> MarshalResources(ev.Resources),
      details     |-> IF ~ev.CloudTrailEvent.nil
                         /\ UnmarshalOk(ev.CloudTrailEvent)
                      THEN "object" ELSE "null" ]

\* formatEventAsText (lines 50-104): the lines of the text block
TextData(ev) ==
    [ timestamp   |-> "2006-01-02 15:04:05",
      eventName   |-> SafeString(ev.EventName),
      eventSource |-> SafeString(ev.EventSource),
      user        |-> SafeString(ev.Username),
      resources   |-> [i \in 1..Len(ev.Resources) |->
                         [name |-> SafeString(ev.Resources[i].ResourceName),
                          type |-> SafeString(ev.Resources[i].ResourceType)]] ]

\* WriteEvent lines 135-153: the content of the record
Content(ev, mode) ==
    IF mode = "json" THEN [format |-> "json", data |-> JsonData(ev)]
    ELSE [format |-> "text", data |-> TextData(ev)]

\* os.OpenFile with O_APPEND|O_CREATE (line 129): a missing file is created
OpenFile(path, fs) ==
    IF path \in DOMAIN fs THEN fs ELSE fs @@ (path :> <<>>)

\* NewLogWriter (lines 29-48): the fields are set and os.MkdirAll is called,
\* its result dropped
NewLogWriter ==
    /\ lwpc = "new"
    /\ \E made \in BOOLEAN : dirs' = NewLogWriterDirs(customFile, dirs, made)
    /\ lwpc' = "ready"
    /\ UNCHANGED <<customFile, today, files, wlog>>
    /\ UNCHANGED <<timeVars, filterVars, scanVars, sinkVars, runVars, ctxVars>>

\* the events handed to the sink
WrittenEvents == {GoodEvent, OtherEvent, NoNameEvent, NoTimeEvent}

\* one WriteEvent call (lines 113-160) by the only caller
WriteEventCall ==
    /\ lwpc = "ready"
    /\ Len(wlog) < MaxWrites
    /\ \E ev \in WrittenEvents, o \in WriteOutcomes :
        LET filename == FileName(customFile, today)
            id       == Len(wlog) + 1
            entry(r) == [date |-> today, event |-> ev, ret |-> r]
        IN  IF ~(o.open /\ DirExists(Dir(filename), dirs))
            THEN /\ wlog' = Append(wlog, entry("err"))
                 /\ UNCHANGED <<files, lwpc>>
            ELSE IF ~ev.EventTime
                 THEN \* lines 139, 55: Format through the nil pointer
                      /\ files' = OpenFile(filename, files)
                      /\ wlog' = Append(wlog, entry("panic"))
                      /\ lwpc' = "panic"
                 ELSE /\ files' =
                          [OpenFile(filename, files) EXCEPT ![filename] =
                              IF o.pieces = 0 THEN @
                              ELSE Append(@, [id      |-> id,
                                              content |-> Content(ev, exportMode),
                                              pieces  |-> o.pieces])]
                      /\ wlog' = Append(wlog,
                             entry(IF o.pieces = RecLen THEN "nil" ELSE "err"))
                      /\ UNCHANGED lwpc
    /\ UNCHANGED <<customFile, today, dirs>>
    /\ UNCHANGED <<timeVars, filterVars, scanVars, sinkVars, runVars, ctxVars>>

\* the calendar date of time.Now() moves on
Midnight ==
    /\ lwpc \in {"new", "ready"}
    /\ today < MaxDate
    /\ today' = today + 1
    /\ UNCHANGED <<lwpc, customFile, dirs, files, wlog>>
    /\ UNCHANGED <<timeVars, filterVars, scanVars, sinkVars, runVars, ctxVars>>

\* before NewLogWriter: the options of the run, an empty file system
WriterInit ==
    /\ lwpc = "new"
    /\ customFile \in {NoPath, ExportPath, ExportHere}
    /\ exportMode \in {"text", "json"}
    /\ today = 0
    /\ dirs = {}
    /\ files = NoFiles
    /\ wlog = <<>>
    /\ mu = NoHolder /\ wpc = <<>> /\ wn = <<>> /\ calls = <<>> /\ rets = {} /\ handles = {}

-----------------------------------------------------------------------------
(* cmd/kms: the command, PreRunE and runKMS *)

\* PreRunE of the filter variant, lines 80-96
PreRunFilter ==
    IF lastN = <<>> /\ (startStr = EmptyString \/ endStr = EmptyString)
    THEN Error("time range is required", "nil")
    ELSE IF /\ criteria.KeyID = <<>> /\ criteria.EventName = <<>>
            /\ criteria.UserName = <<>> /\ criteria.Operation = <<>>
         THEN Error("at least one search criteria is required", "nil")
         ELSE IF criteria.ErrorsOnly /\ criteria.SuccessOnly
              THEN Error("cannot use both --errors-only and --success-only",
                         "nil")
              ELSE NoError

\* PreRunE of the key-only variant, lines 219-248: the profile is validated,
\* the resolver is run for its error alone, then the export flags
PreRunKeyOnly(profileOk, made, n) ==
    LET w == ValidateAndParseTimeRange(lastN, startStr, endStr, n)
    IN  IF ~profileOk THEN Error("profile not found", "nil")
        ELSE IF w.err # "none" THEN Error("invalid time range", w.err)
        ELSE IF exportMode \notin {"", "text", "json"}
             THEN Error("invalid export format", "nil")
             ELSE IF customFile # NoPath /\ ~made
                  THEN Error("failed to create export directory", "nil")
                  ELSE NoError

PreRunE ==
    /\ rpc = "prerun"
    /\ \E profileOk \in BOOLEAN, made \in BOOLEAN, n \in Nows :
        LET err == IF variant = "filter" THEN PreRunFilter
                   ELSE PreRunKeyOnly(profileOk, made, n)
        IN  /\ runErr' = err
            /\ rpc' = IF err = NoError THEN "resolve" ELSE "returned"
            /\ dirs' = IF variant = "keyonly" /\ err = NoError
                          /\ customFile # NoPath
                       THEN MkdirAll(Dir(customFile), dirs)
                       ELSE dirs
    /\ UNCHANGED <<client, lwpc, customFile, today, files, wlog>>
    /\ UNCHANGED <<timeVars, filterVars, scanVars, sinkVars, ctxVars>>

\* runKMS with the error of the resolver dropped
RunResolveIgnoresError ==
    /\ rpc = "resolve"
    /\ \E n \in Nows :
        /\ now' = n
        /\ window' = ValidateAndParseTimeRange(lastN, startStr, endStr, n)
    /\ tpc' = "resolved"
    /\ rpc' = "client"
    /\ UNCHANGED <<lastN, startStr, endStr, client, runErr>>
    /\ UNCHANGED <<filterVars, scanVars, sinkVars, writerVars, ctxVars>>

\* runKMS lines 123-126, 265-268: the window is resolved, an error returned
RunResolve ==
    /\ rpc = "resolve"
    /\ \E n \in Nows :
        LET w == ValidateAndParseTimeRange(lastN, startStr, endStr, n)
        IN  /\ now' = n
            /\ window' = w
            /\ IF w.err # "none"
               THEN rpc' = "returned" /\ runErr' = Error(w.err, "nil")
               ELSE rpc' = "client" /\ UNCHANGED runErr
    /\ tpc' = "resolved"
    /\ UNCHANGED <<lastN, startStr, endStr, client>>
    /\ UNCHANGED <<filterVars, scanVars, sinkVars, writerVars, ctxVars>>

\* why aws.NewAWSClient fails: client.go lines 24-28, 33-39, 43-52
ClientCauses == {"invalid AWS profile", "unable to load SDK config",
                 "failed to verify AWS credentials"}

\* runKMS lines 134, 288: aws.NewAWSClient returns a client
NewAWSClientOk ==
    /\ rpc = "client"
    /\ client' = "ok"
    /\ rpc' = "monitor"
    /\ UNCHANGED runErr
    /\ UNCHANGED <<timeVars, filterVars, scanVars, sinkVars, writerVars, ctxVars>>

\* runKMS lines 134-137, 288-291: aws.NewAWSClient fails
NewAWSClientFail ==
    /\ rpc = "client"
    /\ client' = "failed"
    /\ \E c \in ClientCauses :
        runErr' = Error("AWS client initialization failed", c)
    /\ rpc' = "returned"
    /\ UNCHANGED <<timeVars, filterVars, scanVars, sinkVars, writerVars, ctxVars>>

\* runKMS lines 156-159, 300-303: NewKMSMonitor builds the LogWriter and
\* MonitorKMSEvents builds the paginator
StartMonitor ==
    /\ rpc = "monitor"
    /\ \E made \in BOOLEAN : dirs' = NewLogWriterDirs(customFile, dirs, made)
    /\ lwpc' = "ready"
    /\ pc' = "scan"
    /\ firstPage' = TRUE
    /\ rpc' = "running"
    /\ UNCHANGED <<client, runErr, customFile, today, files, wlog>>
    /\ UNCHANGED <<variant, criteria, pages, nextToken, output, idx, requests,
                   fault, scanErr, evaluated, eventCount, console, file,
                   writeErrors, summary>>
    /\ UNCHANGED <<timeVars, filterVars, sinkVars, ctxVars>>

\* runKMS calling MonitorKMSEvents again when it returned an error
RunReturnRetries ==
    /\ rpc = "running"
    /\ pc \in {"done", "error"}
    /\ IF pc = "error"
       THEN rpc' = "monitor" /\ UNCHANGED runErr
       ELSE rpc' = "returned" /\ runErr' = NoError
    /\ UNCHANGED client
    /\ UNCHANGED <<timeVars, filterVars, scanVars, sinkVars, writerVars, ctxVars>>

\* runKMS lines 159, 303-314: what MonitorKMSEvents returned is returned
RunReturn ==
    /\ rpc = "running"
    /\ pc \in {"done", "error"}
    /\ runErr' = IF pc = "error" THEN scanErr ELSE NoError
    /\ rpc' = "returned"
    /\ UNCHANGED client
    /\ UNCHANGED <<timeVars, filterVars, scanVars, sinkVars, writerVars, ctxVars>>

RunIdle == rpc = "off" /\ client = "none" /\ runErr = NoError

WriterIdle ==
    /\ lwpc = "off" /\ customFile = NoPath /\ today = 0 /\ dirs = {}
    /\ files = NoFiles /\ wlog = <<>>

\* the flags of the runs
RunLastN       == {<<>>, <<"5", "m">>, <<"2", "5", "h">>}
RunTimeStrings == {EmptyString, TimeString("date", 0, 0, FALSE),
                   TimeString("full", 2, 12 * Hour, TRUE)}
BothStatus     == [ByKey EXCEPT !.ErrorsOnly = TRUE, !.SuccessOnly = TRUE]
RunPages       == { << <<GoodEvent>> >>, << <<OtherEvent>>, <<GoodEvent>> >>,
                    << <<NoTimeEvent, GoodEvent>> >> }

\* the command line is parsed, nothing has run
RunInit ==
    /\ rpc = "prerun" /\ client = "none" /\ runErr = NoError
    /\ tpc = "input"
    /\ lastN \in RunLastN
    /\ startStr \in RunTimeStrings
    /\ endStr \in RunTimeStrings
    /\ now = ZeroTime
    /\ window = Pending
    /\ variant \in {"filter", "keyonly"}
    /\ criteria \in IF variant = "filter"
                    THEN {ByNameErrors, NoFilters, BothStatus}
                    ELSE {ByKey}
    /\ pages \in RunPages
    /\ pc = "wait" /\ firstPage = FALSE /\ nextToken = 0 /\ output = <<>>
    /\ idx = 0 /\ requests = <<>> /\ fault = NoFault /\ scanErr = NoError
    /\ evaluated = <<>> /\ eventCount = 0 /\ console = <<>> /\ file = <<>>
    /\ writeErrors = {} /\ summary = NoSummary
    /\ exportMode \in {"text", "xml"}
    /\ mu = NoHolder /\ wpc = <<>> /\ wn = <<>> /\ calls = <<>> /\ rets = {} /\ handles = {}
    /\ lwpc = "new" /\ customFile \in {NoPath, ExportPath} /\ today = 0
    /\ dirs = {} /\ files = NoFiles /\ wlog = <<>>

-----------------------------------------------------------------------------
(* Specifications *)

InitTime   == TimeInit /\ FilterIdle /\ ScanIdle /\ SinkIdle /\ RunIdle
                       /\ WriterIdle /\ CtxIdle
InitFilter == FilterInit /\ TimeIdle /\ ScanIdle /\ SinkIdle /\ RunIdle
                         /\ WriterIdle /\ CtxIdle
Init       == ScanInit /\ TimeIdle /\ FilterIdle /\ SinkIdle /\ RunIdle
                       /\ WriterIdle /\ CtxIdle
InitSink   == SinkInit /\ TimeIdle /\ FilterIdle /\ ScanIdle /\ RunIdle
                       /\ WriterIdle /\ CtxIdle
InitRun    == RunInit /\ FilterIdle /\ CtxIdle
InitWriter == WriterInit /\ TimeIdle /\ FilterIdle /\ ScanIdle /\ RunIdle
                         /\ CtxIdle
InitCancel == ScanInit /\ cancelled \in BOOLEAN /\ TimeIdle /\ FilterIdle
                       /\ SinkIdle /\ RunIdle /\ WriterIdle

NextSink ==
    \E w \in Workers :
        \/ Call(w)
        \/ Lock(w)
        \/ OpenOk(w)
        \/ OpenFail(w)
        \/ Format(w)
        \/ MarshalFail(w)
        \/ WritePiece(w)
        \/ WriteFail(w)
        \/ WriteDone(w)

Next == NextPageOk \/ NextPageFail \/ ProcessEvent \/ EndPage \/ Finish

NextCancel ==
    \/ NextPageOk
    \/ NextPageFail
    \/ ProcessEvent
    \/ EndPage
    \/ Finish
    \/ Cancel

NextRun ==
    \/ PreRunE
    \/ RunResolve
    \/ NewAWSClientOk
    \/ NewAWSClientFail
    \/ StartMonitor
    \/ NextPageOk
    \/ NextPageFail
    \/ ProcessEvent
    \/ EndPage
    \/ Finish
    \/ RunReturn

SpecTime   == InitTime /\ [][Resolve]_vars
SpecFilter == InitFilter /\ [][Match]_vars
Spec       == Init /\ [][Next]_vars
SpecSink   == InitSink /\ [][NextSink]_vars
NextWriter == NewLogWriter \/ WriteEventCall \/ Midnight

SpecRun    == InitRun /\ [][NextRun]_vars
SpecWriter == InitWriter /\ [][NextWriter]_vars
SpecCancel == InitCancel /\ [][NextCancel]_vars

\* the steps of a call that holds the mutex
Holding(w) ==
    \/ OpenOk(w)
    \/ OpenFail(w)
    \/ Format(w)
    \/ MarshalFail(w)
    \/ WritePiece(w)
    \/ WriteFail(w)
    \/ WriteDone(w)

\* a call that holds the mutex keeps running, and sync.Mutex hands the mutex
\* to a waiter that keeps finding it taken (starvation mode)
SinkFairness ==
    \A w \in Workers : WF_vars(Holding(w)) /\ SF_vars(Lock(w))

\* the process keeps running: a step that can be taken is taken, and every
\* page request returns
InitFair == Init
SpecFair == InitFair /\ [][Next]_vars /\ WF_vars(Next)

InitSinkFair == InitSink
SpecSinkFair == InitSinkFair /\ [][NextSink]_vars /\ SinkFairness

-----------------------------------------------------------------------------
(* Properties of the resolver *)

\* C1: every window the resolver returns without error, from a relative or
\* an absolute specification, has end >= start and end - start <= 24 hours.
WindowBounded ==
    (tpc = "resolved" /\ window.err = "none")
        => /\ window.end >= window.start
           /\ window.end - window.start <= 24 * Hour

\* C1 witness: an absolute range with a date-only end, accepted one second
\* short of 24 hours.
WindowBoundedWitness ==
    /\ tpc = "resolved"
    /\ window.err = "none"
    /\ lastN = <<>>
    /\ endStr.layout = "date"
    /\ window.end - window.start = 24 * Hour - 1

\* the flags name a relative window: lastN alone
RelativeGiven ==
    lastN # <<>> /\ startStr = EmptyString /\ endStr = EmptyString

\* the flags name an absolute window: start and end, no lastN
AbsoluteGiven ==
    lastN = <<>> /\ startStr # EmptyString /\ endStr # EmptyString

NoWindow == window.start = ZeroTime /\ window.end = ZeroTime

\* C12: the resolver succeeds only when lastN is given alone or start and
\* end are given without lastN; lastN with start or end, one of start and end
\* alone, and none of the three each fail and return no window.
OneWindowSpecRequired ==
    tpc = "resolved"
        => /\ window.err = "none" => (RelativeGiven \/ AbsoluteGiven)
           /\ ~(RelativeGiven \/ AbsoluteGiven)
                  => window.err # "none" /\ NoWindow

\* C12 witness: a valid lastN given together with a valid start and end is
\* refused.
OneWindowSpecRequiredWitness ==
    /\ tpc = "resolved"
    /\ lastN = <<"5", "m">>
    /\ startStr.layout = "date" /\ endStr.layout = "date"
    /\ startStr.day = endStr.day
    /\ window.err = "cannot use --last-n with --start/--end flags"
    /\ NoWindow

RECURSIVE StripZeros(_)
\* a digit string without its leading zeros
StripZeros(ds) ==
    IF ds # <<>> /\ Head(ds) = "0" THEN StripZeros(Tail(ds)) ELSE ds

RECURSIVE NumeralFrom(_, _)
\* the number a digit string denotes, read from the left
NumeralFrom(acc, ds) ==
    IF ds = <<>> THEN acc
    ELSE NumeralFrom(acc * 10 + DigitVal(Head(ds)), Tail(ds))

\* s is a decimal integer followed by a unit letter
IsRelativeSpec(s) ==
    /\ Len(s) >= 2
    /\ s[Len(s)] \in {"m", "h"}
    /\ \A i \in 1..(Len(s) - 1) : s[i] \in Digits

UnitSeconds(s) == IF s[Len(s)] = "m" THEN 60 ELSE 3600
UnitMax(s)     == IF s[Len(s)] = "m" THEN 1440 ELSE 24

\* s is N followed by 'm' with 1 <= N <= 1440 or by 'h' with 1 <= N <= 24;
\* a numeral of more than four significant digits is above both ranges
InRelativeRange(s) ==
    /\ IsRelativeSpec(s)
    /\ LET ds == StripZeros(SubSeq(s, 1, Len(s) - 1))
       IN  /\ ds # <<>>
           /\ Len(ds) <= 4
           /\ NumeralFrom(0, ds) <= UnitMax(s)

RelativeN(s) == NumeralFrom(0, StripZeros(SubSeq(s, 1, Len(s) - 1)))

\* C13: a relative spec is accepted exactly when it is N followed by 'm' with
\* 1 <= N <= 1440 or by 'h' with 1 <= N <= 24; the window of an accepted spec
\* ends at the current instant and is exactly N minutes or N hours long;
\* every other spec fails.
RelativeSpecExact ==
    (tpc = "resolved" /\ RelativeGiven)
        => IF InRelativeRange(lastN)
           THEN /\ window.err = "none"
                /\ window.end = now
                /\ window.end - window.start = RelativeN(lastN) * UnitSeconds(lastN)
           ELSE window.err # "none" /\ NoWindow

\* C13 witness: the largest accepted number of minutes, a window of 24 hours
\* ending now.
RelativeSpecExactWitness ==
    /\ tpc = "resolved"
    /\ lastN = <<"1", "4", "4", "0", "m">>
    /\ window.err = "none"
    /\ window.end = now
    /\ window.start = now - 24 * 3600

\* a --start/--end string one of the three layouts reads
Parseable(t) == t.layout \in {"full", "minute", "date"}

\* the instant a parseable string names: the second of its day, midnight for
\* a date alone
Named(t) == t.day * 86400 + (IF t.layout = "date" THEN 0 ELSE t.sec)

\* the end after a date-only end has been widened to the last second of its
\* day
Widened(t) == IF t.layout = "date" THEN Named(t) + 86399 ELSE Named(t)

\* C14: for every parseable absolute start/end pair, with a date-only end
\* widened, the resolver fails if end is before start, fails if end - start
\* exceeds 24 hours, and succeeds only when 0 <= end - start <= 24 hours.
AbsoluteRangeChecked ==
    (tpc = "resolved" /\ AbsoluteGiven /\ Parseable(startStr)
                      /\ Parseable(endStr))
        => LET length == Widened(endStr) - Named(startStr)
           IN  /\ length < 0
                      => /\ window.err = "end time cannot be before start time"
                         /\ NoWindow
               /\ length > 24 * 3600
                      => /\ window.err = "time range cannot exceed 24 hours"
                         /\ NoWindow
               /\ window.err = "none" => (0 <= length /\ length <= 24 * 3600)

\* C14 witness: two dates a day apart, refused because the widened end is more
\* than 24 hours after the start.
AbsoluteRangeCheckedWitness ==
    /\ tpc = "resolved"
    /\ AbsoluteGiven
    /\ startStr.layout = "date" /\ endStr.layout = "date"
    /\ endStr.day = startStr.day + 1
    /\ window.err = "time range cannot exceed 24 hours"

\* C15: a date-only end is resolved to 23:59:59 of its date before the range
\* checks run, a date-only start to 00:00:00 of its date, and an end with a
\* time of day is never widened.
DateOnlyEndWidened ==
    (tpc = "resolved" /\ AbsoluteGiven /\ Parseable(startStr)
                      /\ Parseable(endStr))
        => /\ window.err = "none"
                  => /\ window.start = Named(startStr)
                     /\ endStr.layout = "date"
                            => window.end = endStr.day * 86400 + 86399
                     /\ endStr.layout # "date" => window.end = Named(endStr)
              \* the checks see the widened end: a date-only end on the day
              \* of the start is never before the start
           /\ (endStr.layout = "date" /\ endStr.day = startStr.day)
                  => window.err = "none"
              \* and a date-only end on the day after a date-only start is
              \* too far
           /\ (endStr.layout = "date" /\ startStr.layout = "date"
                                      /\ endStr.day = startStr.day + 1)
                  => window.err = "time range cannot exceed 24 hours"

\* C15 witness: a start at noon and a date-only end on the same day, accepted
\* with the end at 23:59:59.
DateOnlyEndWidenedWitness ==
    /\ tpc = "resolved"
    /\ AbsoluteGiven
    /\ startStr = TimeString("full", 1, 12 * 3600, TRUE)
    /\ endStr = TimeString("date", 1, 0, FALSE)
    /\ window = Success(86400 + 12 * 3600, 86400 + 86399)

-----------------------------------------------------------------------------
(* Properties of the filter predicate *)

\* the detail document holds an errorCode that is a non-empty string
HasNonEmptyErrorCode(ev) ==
    /\ ~ev.CloudTrailEvent.nil
    /\ ev.CloudTrailEvent.json = "object"
    /\ ev.CloudTrailEvent.errorCode.t = "string"
    /\ ev.CloudTrailEvent.errorCode.s # <<>>

Criteria == {"KeyID", "EventName", "UserName", "Operation",
             "ErrorsOnly", "SuccessOnly"}

Unset(c) == IF c \in {"ErrorsOnly", "SuccessOnly"} THEN FALSE ELSE <<>>

Active(c, f) == f[c] # Unset(c)

\* the criteria set holding criterion c of f and nothing else
Only(c, f) == [NoFilters EXCEPT ![c] = f[c]]

\* the criteria sets that are f with one more criterion enabled
OneMore(f) ==
    UNION { { [f EXCEPT ![c] = v] : v \in CriterionValues[c] \ {Unset(c)} } :
              c \in {d \in Criteria : ~Active(d, f)} }

\* C2: with errorsOnly set, only events whose detail document holds a
\* non-empty errorCode are matched.
ErrorsOnlyNeedsErrorCode ==
    (fpc = "matched" /\ filters.ErrorsOnly /\ result)
        => HasNonEmptyErrorCode(event)

\* C3: with all other criteria unset, errorsOnly matches exactly the events
\* with a non-empty errorCode and successOnly exactly the others.
ErrorSuccessPartition ==
    /\ (fpc = "matched" /\ filters = [NoFilters EXCEPT !.ErrorsOnly = TRUE])
           => (result <=> HasNonEmptyErrorCode(event))
    /\ (fpc = "matched" /\ filters = [NoFilters EXCEPT !.SuccessOnly = TRUE])
           => (result <=> ~HasNonEmptyErrorCode(event))

\* some resource entry has the KMS key type and a name containing id
KeyResource(ev, id) ==
    \E r \in {ev.Resources[i] : i \in DOMAIN ev.Resources} :
        /\ r.ResourceType = Ptr(KMSKeyType)
        /\ r.ResourceName # Nil
        /\ Contains(r.ResourceName.s, id)

\* the detail document parses and its requestParameters.keyId is a string
\* containing id
KeyInDetail(ev, id) ==
    LET doc == ev.CloudTrailEvent
    IN  /\ ~doc.nil
        /\ doc.json = "object"
        /\ doc.reqParams = "map"
        /\ doc.keyId.t = "string"
        /\ Contains(doc.keyId.s, id)

\* C16: with the key identifier criterion set, an event passes it exactly
\* when a resource entry of type AWS::KMS::Key has a name containing the
\* identifier or the parsed detail document's requestParameters.keyId is a
\* string containing it; an event with neither is rejected.
KeyCriterionExact ==
    (fpc = "matched" /\ filters.KeyID # <<>>)
        => LET passes == KeyResource(event, filters.KeyID)
                         \/ KeyInDetail(event, filters.KeyID)
           IN  /\ result => passes
               /\ filters = Only("KeyID", filters) => (result <=> passes)

\* C16 witness: no resource qualifies, the keyId of the detail document does,
\* the event is matched.
KeyCriterionExactWitness ==
    /\ fpc = "matched"
    /\ filters.KeyID # <<>>
    /\ event.Resources # <<>>
    /\ ~KeyResource(event, filters.KeyID)
    /\ KeyInDetail(event, filters.KeyID)
    /\ result

\* s contains sub when letter case is ignored
FoldContains(s, sub) ==
    \E i \in 0..Len(s) :
        /\ i + Len(sub) <= Len(s)
        /\ \A j \in 1..Len(sub) : LowerChar(s[i + j]) = LowerChar(sub[j])

\* the optional string p is present and contains sub ignoring letter case
PresentAndContains(p, sub) == p # Nil /\ FoldContains(p.s, sub)

\* C17: with the eventName (userName) criterion set, an event passes it
\* exactly when its event name (username) is present and contains the
\* criterion ignoring letter case; a missing name (username) is rejected.
NameCriteriaExact ==
    /\ (fpc = "matched" /\ filters.EventName # <<>>)
           => LET passes == PresentAndContains(event.EventName,
                                               filters.EventName)
              IN  /\ result => passes
                  /\ filters = Only("EventName", filters)
                         => (result <=> passes)
    /\ (fpc = "matched" /\ filters.UserName # <<>>)
           => LET passes == PresentAndContains(event.Username,
                                               filters.UserName)
              IN  /\ result => passes
                  /\ filters = Only("UserName", filters)
                         => (result <=> passes)

\* C17 witness: the event name matches the criterion only when case is
\* ignored, the username is missing and the userName criterion rejects.
NameCriteriaExactWitness ==
    /\ fpc = "matched"
    /\ filters.EventName = <<"d">>
    /\ event.EventName = Ptr(<<"D", "e">>)
    /\ matchesFilter(event, Only("EventName", filters))
    /\ filters.UserName # <<>>
    /\ event.Username = Nil
    /\ ~result

\* C4: matchesFilter is true exactly when every criterion that is set passes
\* on the event taken alone; unset criteria never reject.
AllActiveCriteriaPass ==
    fpc = "matched"
        => (result <=> \A c \in Criteria :
                          Active(c, filters)
                              => matchesFilter(event, Only(c, filters)))

\* C4 witness: two criteria set, the event name passing alone, the errorsOnly
\* check failing alone, the event rejected.
AllActiveCriteriaPassWitness ==
    /\ fpc = "matched"
    /\ filters.EventName # <<>>
    /\ filters.ErrorsOnly
    /\ matchesFilter(event, Only("EventName", filters))
    /\ ~matchesFilter(event, Only("ErrorsOnly", filters))
    /\ ~result

\* C5: enabling one more criterion never adds an event to the match set.
MoreCriteriaNeverAdd ==
    fpc = "matched"
        => \A g \in OneMore(filters) : matchesFilter(event, g) => result

\* C5 witness: a matched event that one more criterion rejects.
MoreCriteriaNeverAddWitness ==
    /\ fpc = "matched"
    /\ result
    /\ filters.EventName # <<>>
    /\ \E g \in OneMore(filters) : ~matchesFilter(event, g)

-----------------------------------------------------------------------------
(* Properties of the scan *)

PageIds(p, n) == [i \in 1..n |-> <<p, i>>]

RECURSIVE AllIds(_)
\* every event of every page, pages in order, events in page order
AllIds(ps) ==
    IF ps = <<>> THEN <<>>
    ELSE AllIds(SubSeq(ps, 1, Len(ps) - 1)) \o PageIds(Len(ps), Len(ps[Len(ps)]))

IsPrefix(a, b) == Len(a) <= Len(b) /\ SubSeq(b, 1, Len(a)) = a

Elements(q) == {q[i] : i \in 1..Len(q)}

EventAt(id) == pages[id[1]][id[2]]

\* the events of the result set the variant's predicate is true of
SelectedIds == {id \in Elements(AllIds(pages)) : Selected(EventAt(id))}

\* the records of the file that are whole
WholeRecords == {i \in 1..Len(file) : file[i].piece = RecLen}

\* the run is over and no page request failed
EndedWithoutFault == fault = NoFault /\ pc \in {"done", "panic"}

\* C6: when all page requests succeed, every event of every page is evaluated
\* exactly once, pages in order and events in page order, and requests go on
\* until the service reports no further page.
ScanEvaluatesEveryEvent ==
    /\ IsPrefix(evaluated, AllIds(pages))
    /\ requests = [n \in 1..Len(requests) |-> n]
    /\ EndedWithoutFault
           => /\ evaluated = AllIds(pages)
              /\ Len(requests) = Len(pages)

\* what C6 says of the runs that return: a run that returns nil has evaluated
\* every event once, in order, and requested every page once
ReturnedScanEvaluatedAll ==
    /\ IsPrefix(evaluated, AllIds(pages))
    /\ requests = [n \in 1..Len(requests) |-> n]
    /\ pc = "done"
           => /\ evaluated = AllIds(pages)
              /\ Len(requests) = Len(pages)

\* C7: a failed page request ends the scan at once with an error carrying the
\* cause; the page is not requested again, no later page is requested, no
\* further event is processed and no summary is reported.
PageFailureEndsScan ==
    /\ [](fault # NoFault
            => /\ pc = "error"
               /\ scanErr = [msg |-> "error looking up events", cause |-> fault]
               /\ summary = NoSummary)
    /\ [][fault # NoFault => UNCHANGED scanVars]_vars
    /\ [][(fault = NoFault /\ fault' # NoFault)
            => UNCHANGED <<evaluated, eventCount, console, file, summary>>]_vars

\* C7 witness: the request for the second page failed after an event of the
\* first page was matched.
PageFailureEndsScanWitness ==
    /\ fault # NoFault
    /\ pc = "error"
    /\ Len(requests) = 2
    /\ eventCount >= 1

\* C8: a sink write that fails for a matched event does not stop the scan: the
\* event is counted and rendered, the later events are evaluated and the run
\* returns nil when all page requests succeed.
WriteFailureNotFatal ==
    /\ \A id \in writeErrors : id \in Elements(console)
    /\ Cardinality(writeErrors) <= eventCount
    /\ (writeErrors # {} /\ EndedWithoutFault)
           => /\ pc = "done"
              /\ evaluated = AllIds(pages)

\* C9: when a scan completes the reported count is the number of events the
\* predicate is true of, and with no failed write the file holds that many
\* records.
CountEqualsMatchesAndRecords ==
    pc = "done"
        => /\ summary = Cardinality(SelectedIds)
           /\ writeErrors = {} => Cardinality(WholeRecords) = summary

\* the two-page example of C9: one matching event on page 1, a non-matching
\* one on page 2, criteria {eventName, errorsOnly}
TwoPageExample ==
    (/\ pc = "done"
     /\ variant = "filter"
     /\ criteria = ByNameErrors
     /\ pages = << <<GoodEvent>>, <<OtherEvent>> >>
     /\ writeErrors = {})
        => summary = 1 /\ Cardinality(WholeRecords) = 1

\* the detail payload is there and is not a JSON object
Malformed(ev) == ~ev.CloudTrailEvent.nil /\ ev.CloudTrailEvent.json # "object"

\* the event fails on its own: malformed payload, no event name, no event time
Faulty(ev) == Malformed(ev) \/ ev.EventName = Nil \/ ~ev.EventTime

\* the events evaluated so far that satisfy Q
EvaluatedWhere(Q(_)) ==
    {k \in 1..Len(evaluated) : Q(EventAt(evaluated[k]))}

\* after such an event the scan has not aborted, and a run whose page
\* requests all succeeded returned nil having evaluated every event
Confined(Q(_)) ==
    EvaluatedWhere(Q) # {}
        => /\ pc # "panic"
           /\ EndedWithoutFault => (pc = "done" /\ evaluated = AllIds(pages))

\* C22: a per-event failure is confined to its event: after an event with a
\* malformed detail payload, or without an event name or an event time, the
\* scan neither aborts nor skips the events after it, and the run reaches
\* Done when all page requests succeed.
PerEventFailureConfined == Confined(Faulty)

\* a faulty event that has its event time
FaultyWithTime(ev) == Faulty(ev) /\ ev.EventTime

\* what holds of the code in place of C22: the failures of events that have a
\* time are confined in a run without an event that lacks one, and every
\* failure is in the key-only variant
FailureConfinedWhenTimed ==
    /\ (EvaluatedWhere(LAMBDA ev : ~ev.EventTime) = {})
           => Confined(FaultyWithTime)
    /\ variant = "keyonly" => Confined(Faulty)

\* the writes that returned nil, in the order they were made: every event
\* handed to WriteEvent is rendered once WriteEvent returned
SuccessfulWrites == SelectSeq(console, LAMBDA id : id \notin writeErrors)

\* the records of the events q, one after the other
RECURSIVE Records(_)
Records(q) ==
    IF q = <<>> THEN <<>> ELSE Pieces(Head(q), RecLen) \o Records(Tail(q))

\* C24: the sink file is always the concatenation of the records of the
\* successful writes, in the order the writes were made (retrieval order in a
\* scan), and a write never alters or removes what the file held before it.
FileIsConcatenationOfWrites ==
    [][/\ IsPrefix(file, file')
       /\ file' = Records(SuccessfulWrites')]_vars

\* what holds of the code in place of C24: the file only grows, and without
\* the pieces failed writes left it is the concatenation of the records of
\* the successful writes
FileGrowsByWrites ==
    [][/\ IsPrefix(file, file')
       /\ SelectSeq(file', LAMBDA r : r.id \notin writeErrors')
              = Records(SuccessfulWrites')]_vars

\* the events rendered or given a record in the sink file
Reported == Elements(console) \cup {file[i].id : i \in 1..Len(file)}

FromKMS(id) == EventAt(id).EventSource = Ptr(KMSSource)

\* C26: every event the monitor counts as matched and writes has the event
\* source kms.amazonaws.com; an event of another source is never matched,
\* whatever the criteria.
MatchedAreKMS ==
    /\ \A id \in Reported : FromKMS(id)
    /\ eventCount <= Cardinality({id \in Elements(evaluated) : FromKMS(id)})

\* what holds of the code in place of C26: the key-only variant tests the
\* event source, the filter variant reports whatever its criteria match
MatchedAreKMSInKeyOnly ==
    /\ variant = "keyonly" => MatchedAreKMS
    /\ \A id \in Reported : Selected(EventAt(id))

\* each turn of the page loop makes one request, and the loop is left as
\* soon as the service reports no further page or a request fails
OneRequestPerIteration ==
    [][/\ requests' # requests
          => (pc = "scan" /\ HasMorePages /\ Len(requests') = Len(requests) + 1
              /\ pc' \in {"page", "error"})
       /\ (pc = "page" /\ pc' = "scan") => Len(requests') = Len(requests)
       /\ (pc = "scan" /\ ~HasMorePages) => pc' = "done"
       /\ (fault' # NoFault) => pc' = "error"]_vars

\* C27: with finitely many pages and every request returning, a scan that
\* started ends in Done or Error; the loop makes exactly one request per
\* iteration and stops as soon as there is no further page or a request
\* fails.
ScanTerminates ==
    /\ (pc = "scan") ~> (pc \in {"done", "error"})
    /\ OneRequestPerIteration

\* what holds of the code in place of C27: the scan ends, in Done, in Error or
\* in the crash of C22
ScanEndsOrCrashes ==
    /\ (pc = "scan") ~> (pc \in {"done", "error", "panic"})
    /\ (pc = "scan" /\ \A i \in 1..Len(pages) : \A j \in 1..Len(pages[i]) :
                           pages[i][j].EventTime)
           ~> (pc \in {"done", "error"})
    /\ (pc = "scan" /\ variant = "keyonly") ~> (pc \in {"done", "error"})
    /\ OneRequestPerIteration

\* C23: once the context is cancelled no further event is processed and no
\* further record is written: cancellation is observed between page fetches
\* and between the events of one page, and the sink file is left as it was.
CancellationStopsScan ==
    [][cancelled => UNCHANGED <<evaluated, eventCount, console, file>>]_vars

\* what holds of the code in place of C23: the context is looked at by the
\* page request alone, so after cancellation no page is retrieved and the
\* next request ends the scan with the context's error
CancellationStopsPageFetch ==
    [][cancelled => /\ output' = output
                    /\ requests' # requests
                           => (pc' = "error" /\ fault' = "canceled")]_vars

\* the command hands MonitorKMSEvents context.Background(): nothing cancels it
CommandContextNeverCancelled == ~cancelled

-----------------------------------------------------------------------------
(* Properties of the command *)

\* the resolver returned an error or no client was obtained
SetupFailed ==
    \/ window.err \notin {"none", "pending"}
    \/ runErr.msg = "invalid time range"
    \/ client = "failed"

\* no page requested, no event evaluated, nothing in the sink
NothingScanned ==
    /\ requests = <<>> /\ evaluated = <<>> /\ eventCount = 0
    /\ console = <<>> /\ file = <<>>

\* C11: a failure to resolve the time window or to obtain a client ends the
\* run with an error before any page is requested, any event is evaluated or
\* any record is written; a scan runs only with a window and a client.
SetupFailureEndsRun ==
    /\ SetupFailed
           => /\ rpc = "returned"
              /\ runErr # NoError
              /\ pc = "wait"
              /\ NothingScanned
    /\ ~NothingScanned => window.err = "none" /\ client = "ok"

\* C11 witness: the window was resolved, then no client was obtained.
SetupFailureEndsRunWitness ==
    /\ rpc = "returned"
    /\ window.err = "none"
    /\ client = "failed"
    /\ runErr.msg = "AWS client initialization failed"

\* the state of the run: Initializing until MonitorKMSEvents is entered,
\* Scanning inside the page loop, Draining once the loop has ended and the
\* count is final, Done and Error once the command has returned
Phase ==
    IF rpc = "returned"
    THEN IF runErr = NoError THEN "Done" ELSE "Error"
    ELSE IF rpc = "running"
         THEN CASE pc = "error" -> "Error"
                [] pc = "done"  -> "Draining"
                [] OTHER        -> "Scanning"
         ELSE "Initializing"

\* the moves the state machine allows
Forward ==
    { <<"Initializing", "Scanning">>, <<"Scanning", "Draining">>,
      <<"Draining", "Done">>, <<"Initializing", "Error">>,
      <<"Scanning", "Error">> }

\* C21: a run moves only forward through Initializing, Scanning, Draining and
\* Done, or from Initializing or Scanning to Error; it never goes back, never
\* restarts the scan and never leaves Done or Error.
RunMovesForward ==
    [][/\ Phase' # Phase => <<Phase, Phase'>> \in Forward
       /\ IsPrefix(requests, requests')
       /\ firstPage' => (firstPage \/ requests = <<>>)
       /\ Phase \in {"Done", "Error"} => UNCHANGED <<scanVars, window, client>>
      ]_vars

\* C21 witness: a run that went through every state to Done.
RunMovesForwardWitness ==
    /\ Phase = "Done"
    /\ summary = eventCount
    /\ Len(requests) = 2
    /\ evaluated # <<>>

-----------------------------------------------------------------------------
(* Properties of the sink over the days of a run *)

\* the files holding a piece of the record of call i
FilesOf(i) ==
    {p \in DOMAIN files : \E k \in 1..Len(files[p]) : files[p][k].id = i}

\* <outputDir>/<serviceTag>/<serviceTag>-events-<date>.log
DatedFile(date) == Path(<<"logs", "kms">>, "kms", date)

\* where the write of call i is to go
Destination(i) ==
    IF customFile # NoPath THEN customFile ELSE DatedFile(wlog[i].date)

\* C18: each write goes to the explicit destination file when one is
\* configured, whatever the date, and otherwise to the daily file of the
\* calendar date at the moment of the write, so that two writes made on
\* different days land in different files.
WriteGoesToFileOfItsDay ==
    /\ \A i \in 1..Len(wlog) :
           /\ FilesOf(i) \subseteq {Destination(i)}
           /\ wlog[i].ret = "nil" => FilesOf(i) = {Destination(i)}
    /\ \A i, j \in 1..Len(wlog) :
           (/\ customFile = NoPath
            /\ wlog[i].date # wlog[j].date
            /\ wlog[i].ret = "nil" /\ wlog[j].ret = "nil")
               => FilesOf(i) \cap FilesOf(j) = {}

\* C18 witness: no explicit file, two writes that succeeded on different days.
WriteGoesToFileOfItsDayWitness ==
    /\ customFile = NoPath
    /\ Len(wlog) = 2
    /\ wlog[1].ret = "nil" /\ wlog[2].ret = "nil"
    /\ wlog[1].date = 0 /\ wlog[2].date = 1
    /\ FilesOf(1) = {DatedFile(0)}
    /\ FilesOf(2) = {DatedFile(1)}

\* C19: once the sink has been constructed its destination file and the
\* file's parent directories exist, before any event is written and also when
\* no event is ever written.
SinkFileExistsOnceConstructed ==
    lwpc = "ready"
        => /\ DirExists(Dir(FileName(customFile, today)), dirs)
           /\ FileName(customFile, today) \in DOMAIN files

\* what holds of the code in place of C19: a file exists only once a write
\* has opened it
FileExistsOnlyOnceOpened ==
    \A p \in DOMAIN files :
        \E i \in 1..Len(wlog) :
            /\ p = Destination(i)
            /\ DirExists(Dir(p), dirs)

\* what a reader of the file gets for a member that is null or a string: a
\* missing value or that string
ReadPtr(v) == IF v.t = "null" THEN Nil ELSE Ptr(v.s)

\* what a reader gets for the resources member
ReadResources(v) ==
    IF v.t = "null" THEN <<>>
    ELSE [i \in 1..Len(v.items) |->
            [ResourceType |-> ReadPtr(v.items[i].ResourceType),
             ResourceName |-> ReadPtr(v.items[i].ResourceName)]]

\* the whole records written in JSON format, in all files
JsonRecords ==
    UNION { {files[p][k] : k \in 1..Len(files[p])} : p \in DOMAIN files }

\* C20: for every event, one with a missing name or username or an empty
\* resource list included, parsing the object written in JSON format back
\* yields the eventName, user and resources of the source event.
JsonRoundTrip ==
    \A r \in JsonRecords :
        (r.content.format = "json" /\ r.pieces = RecLen)
            => LET source == wlog[r.id].event
                   data   == r.content.data
               IN  /\ ReadPtr(data.eventName) = source.EventName
                   /\ ReadPtr(data.user) = source.Username
                   /\ ReadResources(data.resources) = source.Resources

\* what holds of the code in place of C20: the object read back carries the
\* resources of the source and its names with "N/A" for a missing one
JsonRoundTripUpToSafeString ==
    \A r \in JsonRecords :
        (r.content.format = "json" /\ r.pieces = RecLen)
            => LET source == wlog[r.id].event
                   data   == r.content.data
               IN  /\ ReadPtr(data.eventName) = Ptr(SafeString(source.EventName))
                   /\ ReadPtr(data.user) = Ptr(SafeString(source.Username))
                   /\ ReadResources(data.resources) = source.Resources

-----------------------------------------------------------------------------
(* Properties of the sink under concurrent callers *)

\* at most one call is between Lock and Unlock
OneWriteInFlight == Cardinality({w \in Workers : InFlight(w)}) <= 1

\* the pieces of one record are adjacent and in order
NoInterleaving ==
    \A i \in 1..Len(file) :
        file[i].piece > 1
            => /\ i > 1
               /\ file[i - 1].id = file[i].id
               /\ file[i - 1].piece = file[i].piece - 1

\* the number of pieces of call id in the file
PiecesOf(id) == Cardinality({i \in 1..Len(file) : file[i].id = id})

\* every call that returned left its record whole or left nothing
WholeOrAbsent == \A r \in rets : PiecesOf(r.id) \in {0, RecLen}

\* C10: at most one write is in flight at a time, so the records never
\* interleave and each record is fully present or fully absent.
SinkWritesAtomic == OneWriteInFlight /\ NoInterleaving /\ WholeOrAbsent

\* the mutex is held, and a file handle is open, only inside a call that is
\* between Lock and its return
HeldOnlyInFlight ==
    \A w \in Workers :
        /\ mu = w => InFlight(w)
        /\ w \in handles => (mu = w /\ wpc[w] \in {"format", "write"})

\* C25: every return path of WriteEvent (success, open failure, marshal
\* failure, write failure) releases the mutex and closes the file handle, so
\* a failed write never blocks a later or concurrent write: every writer
\* waiting for the mutex eventually gets it and every call returns.
WriteEventReleases ==
    /\ []HeldOnlyInFlight
    /\ \A w \in Workers :
          /\ (wpc[w] = "lock") ~> (mu = w)
          /\ (wpc[w] # "idle") ~> (wpc[w] = "idle")

\* a call failed, and after it a worker that waited holds the mutex and an
\* open handle while the worker whose call failed waits in its next call
WriteEventReleasesWitness ==
    \E r \in rets :
        \E w \in Workers :
            /\ r.ret = "err"
            /\ r.id[1] # w
            /\ mu = w
            /\ w \in handles
            /\ wpc[r.id[1]] = "lock"

=============================================================================
